---- MODULE Spec2Model ----
(***************************************************************************)
(* The sheet -> tree -> sheet pipeline of src/streamlit_app.py:            *)
(* process_excel_to_json walks the rows of one worksheet and builds        *)
(* json_data; create_excel_from_json writes json_data back as worksheet    *)
(* cells.                                                                  *)
(*                                                                         *)
(* Text is a sequence of one-character strings, so that strip, upper and   *)
(* substring containment are computed.  A float is a fixed-point integer:  *)
(* the value times Scale.  A Python dict is a record whose DOMAIN is the   *)
(* dict's key set; a reference to a dict held in json_data["entries"] is   *)
(* its 1-based position in that list, and None is position 0.              *)
(***************************************************************************)
EXTENDS Integers, Sequences, FiniteSets, TLC

\* Number of data rows after the category row that a grid may hold.
MaxRows == 3

\* Fixed-point unit of a float: 0.625 is 6250, 62.5 is 625000.
Scale == 10000

(***************************************************************************)
(* Text                                                                    *)
(***************************************************************************)
LowerCase == <<"a", "b", "c", "d", "e", "f", "g", "h", "i", "j", "k", "l", "m",
               "n", "o", "p", "q", "r", "s", "t", "u", "v", "w", "x", "y", "z">>

UpperCase == <<"A", "B", "C", "D", "E", "F", "G", "H", "I", "J", "K", "L", "M",
               "N", "O", "P", "Q", "R", "S", "T", "U", "V", "W", "X", "Y", "Z">>

Digits == <<"0", "1", "2", "3", "4", "5", "6", "7", "8", "9">>

IsSpace(c) == c = " "

IsDigit(c) == \E k \in 1..Len(Digits) : Digits[k] = c

DigitVal(c) == (CHOOSE k \in 1..Len(Digits) : Digits[k] = c) - 1

\* str.upper()
UpperChar(c) ==
    IF \E k \in 1..Len(LowerCase) : LowerCase[k] = c
    THEN UpperCase[CHOOSE k \in 1..Len(LowerCase) : LowerCase[k] = c]
    ELSE c

Upper(s) == [k \in 1..Len(s) |-> UpperChar(s[k])]

\* str.strip()
RECURSIVE LStrip(_)
LStrip(s) == IF s # <<>> /\ IsSpace(Head(s)) THEN LStrip(Tail(s)) ELSE s

RECURSIVE RStrip(_)
RStrip(s) ==
    IF s # <<>> /\ IsSpace(s[Len(s)]) THEN RStrip(SubSeq(s, 1, Len(s) - 1)) ELSE s

Strip(s) == RStrip(LStrip(s))

\* sub in s
Contains(s, sub) ==
    \E k \in 0..(Len(s) - Len(sub)) : SubSeq(s, k + 1, k + Len(sub)) = sub

\* str.replace(c, '')
RECURSIVE Remove(_, _)
Remove(s, c) ==
    IF s = <<>> THEN <<>>
    ELSE IF Head(s) = c THEN Remove(Tail(s), c)
    ELSE <<Head(s)>> \o Remove(Tail(s), c)

(***************************************************************************)
(* Cell values and floats                                                  *)
(***************************************************************************)
NaN == [k |-> "NaN"]

Str(s) == [k |-> "str", s |-> s]

Num(v) == [k |-> "float", v |-> v]

None == [k |-> "None"]

\* pd.isna(value)
IsNa(cell) == cell.k = "NaN"

RECURSIVE DigitsVal(_)
DigitsVal(s) ==
    IF s = <<>> THEN 0 ELSE DigitsVal(SubSeq(s, 1, Len(s) - 1)) * 10 + DigitVal(s[Len(s)])

AllDigits(s) == \A k \in 1..Len(s) : IsDigit(s[k])

RECURSIVE Pow10(_)
Pow10(n) == IF n = 0 THEN 1 ELSE 10 * Pow10(n - 1)

FracDigits == 4

\* The value of the fraction digits f, in units of 1/Scale.
FracVal(f) ==
    IF Len(f) >= FracDigits THEN DigitsVal(SubSeq(f, 1, FracDigits))
    ELSE DigitsVal(f) * Pow10(FracDigits - Len(f))

\* float(str): surrounding blanks, an optional sign, digits with at most one
\* point and at least one digit; anything else is a ValueError (None here).
\* Exponents, inf and nan spellings are outside the texts of this model.
ParseFloat(text) ==
    LET s    == Strip(text)
        neg  == s # <<>> /\ Head(s) = "-"
        body == IF s # <<>> /\ Head(s) \in {"-", "+"} THEN Tail(s) ELSE s
        dots == {k \in 1..Len(body) : body[k] = "."}
        dot  == IF dots = {} THEN Len(body) + 1 ELSE CHOOSE k \in dots : TRUE
        ip   == SubSeq(body, 1, dot - 1)
        fp   == SubSeq(body, dot + 1, Len(body))
        ok   == /\ Cardinality(dots) <= 1
                /\ AllDigits(ip) /\ AllDigits(fp)
                /\ Len(ip) + Len(fp) >= 1
        mag  == DigitsVal(ip) * Scale + FracVal(fp)
    IN  IF ok THEN Num(IF neg THEN 0 - mag ELSE mag) ELSE None

safe_numeric_convert(value) ==
    IF IsNa(value) THEN None
    ELSE IF value.k = "str" THEN ParseFloat(Remove(Remove(value.s, ","), "%"))
    ELSE Num(value.v)

\* Truth value of safe_numeric_convert's result: None and 0.0 are false.
Truthy(x) == x.k = "float" /\ x.v # 0

(***************************************************************************)
(* The grid: rows of nine cells                                            *)
(***************************************************************************)
CategoryText == <<"0", "7", " ", "-", " ", "A", "v", "e", "r", "a", "g", "e", " ",
                  "Q", "u", "a", "l", "i", "t", "y">>
AcmeText == <<"A", "c", "m", "e", " ", "L", "L", "C">>
BetaText == <<" ", "B", "e", "t", "a", " ", "C", "o", "r", "p", " ">>
BetaName == <<"B", "e", "t", "a", " ", "C", "o", "r", "p">>
RevolverText == <<"R", "e", "v", "o", "l", "v", "e", "r">>
RevolverUpper == <<"R", "E", "V", "O", "L", "V", "E", "R">>
SubTotalText == <<"S", "u", "b", " ", "T", "o", "t", "a", "l">>
TermA == <<"T", "e", "r", "m", " ", "A">>
TermB == <<"T", "e", "r", "m", " ", "B">>
TermC == <<"T", "e", "r", "m", " ", "C">>
GradeAA == <<"A", "A">>
GradeA == <<"A">>

NoMetrics == <<NaN, NaN, NaN, NaN, NaN, NaN, NaN>>

\* "45.0", "30.0", "100", "200", "300", "10.0", "5.0"
TextualMetrics ==
    <<Str(<<"4", "5", ".", "0">>), Str(<<"3", "0", ".", "0">>), Str(<<"1", "0", "0">>),
      Str(<<"2", "0", "0">>), Str(<<"3", "0", "0">>), Str(<<"1", "0", ".", "0">>),
      Str(<<"5", ".", "0">>)>>

\* "62.5%", 12.5, "1,234", 200.0, 1434.0, 25.0, 2.5
MixedMetrics ==
    <<Str(<<"6", "2", ".", "5", "%">>), Num(125000), Str(<<"1", ",", "2", "3", "4">>),
      Num(200 * Scale), Num(1434 * Scale), Num(25 * Scale), Num(25000)>>

ZeroMetrics == <<Num(0), Num(0), Num(0), Num(0), Num(0), Num(0), Num(0)>>

NonNumericMetrics == [c \in 1..7 |-> Str(<<"n", "/", "a">>)]

MakeRow(name, lgd, metrics) == <<name, lgd>> \o metrics

CategoryRow == MakeRow(Str(CategoryText), NaN, NoMetrics)

BlankRow == MakeRow(NaN, NaN, NoMetrics)

\* The rows a grid is drawn from, after its first row.
Rows ==
    { BlankRow,
      MakeRow(Str(AcmeText), NaN, NoMetrics),
      MakeRow(Str(BetaText), NaN, NoMetrics),
      MakeRow(Str(RevolverText), NaN, NoMetrics),
      MakeRow(Str(RevolverUpper), Str(GradeAA), NoMetrics),
      MakeRow(Str(SubTotalText), NaN, MixedMetrics),
      CategoryRow,
      MakeRow(Str(TermA), Str(GradeAA), TextualMetrics),
      MakeRow(Str(TermB), Str(GradeA), MixedMetrics),
      MakeRow(Str(TermC), Str(GradeAA), NoMetrics),
      MakeRow(Str(TermC), Str(GradeAA), ZeroMetrics),
      MakeRow(Str(TermC), Str(GradeAA), NonNumericMetrics) }

(***************************************************************************)
(* process_excel_to_json                                                   *)
(***************************************************************************)
VARIABLES
    pc,                         \* "loop": in the row loop; "returned": json_data returned
    df_raw,                     \* the rows of the grid read so far, row 0 first
    json_data,                  \* [category, entries]
    current_parent_entry,       \* position in json_data.entries, 0 for None
    current_subcategory_entry,  \* position in json_data.entries, 0 for None
    origin,                     \* origin[k]: the loop index i whose row appended entries[k]
    worksheet,                  \* create_excel_from_json: the sheet being written
    current_row,                \* create_excel_from_json: the next row to write
    outputs                     \* the sheets returned by the calls made so far

vars == <<pc, df_raw, json_data, current_parent_entry, current_subcategory_entry, origin,
          worksheet, current_row, outputs>>

builder_vars == <<df_raw, json_data, current_parent_entry, current_subcategory_entry, origin>>

render_vars == <<worksheet, current_row, outputs>>

\* row.isna().all()
RowAllNa(row) == \A c \in 1..Len(row) : IsNa(row[c])

\* str(cell).strip() if pd.notna(cell) else ""   (the cells of columns A and B are text)
ColText(cell) == IF IsNa(cell) THEN <<>> ELSE Strip(cell.s)

QualityUpper == <<"Q", "U", "A", "L", "I", "T", "Y">>

\* The first column matches the category marker (it contains "quality").
MatchesCategoryMarker(row) == Contains(Upper(ColText(row[1])), QualityUpper)

\* The first column contains the subtotal marker "Sub Total".
MatchesSubtotal(row) == Contains(ColText(row[1]), SubTotalText)

\* The builder's loop state: the entries list, its two cursors, and origin.
BuilderState == [entries |-> json_data.entries,
                 parent  |-> current_parent_entry,
                 sub     |-> current_subcategory_entry,
                 origin  |-> origin]

\* StartParent without the reset of the subcategory cursor.
StartParentKeepsSubcategory(st, col_name_term, i) ==
    [entries |-> Append(st.entries, [name |-> col_name_term]),
     parent  |-> Len(st.entries) + 1,
     sub     |-> st.sub,
     origin  |-> Append(st.origin, i)]

\* StartParent that reuses the slot of a parent that has received nothing yet.
StartParentReplacesBareParent(st, col_name_term, i) ==
    IF st.parent # 0 /\ st.parent = Len(st.entries)
       /\ DOMAIN st.entries[st.parent] = {"name"}
    THEN [entries |-> [st.entries EXCEPT ![st.parent] = [name |-> col_name_term]],
          parent  |-> st.parent,
          sub     |-> 0,
          origin  |-> [st.origin EXCEPT ![st.parent] = i]]
    ELSE [entries |-> Append(st.entries, [name |-> col_name_term]),
          parent  |-> Len(st.entries) + 1,
          sub     |-> 0,
          origin  |-> Append(st.origin, i)]

\* (A) a name and no LGD: start a new parent, reset the subcategory.
StartParent(st, col_name_term, i) ==
    [entries |-> Append(st.entries, [name |-> col_name_term]),
     parent  |-> Len(st.entries) + 1,
     sub     |-> 0,
     origin  |-> Append(st.origin, i)]

\* (B) "REVOLVER" in the name: start a subCategory block at the top level.
StartSubCategory(st, col_name_term, i) ==
    [entries |-> Append(st.entries,
                        [name        |-> IF st.parent # 0 THEN st.entries[st.parent].name
                                         ELSE <<>>,
                         subCategory |-> col_name_term,
                         entries     |-> <<>>]),
     parent  |-> st.parent,
     sub     |-> Len(st.entries) + 1,
     origin  |-> Append(st.origin, i)]

\* safe_numeric_convert(value) / 100, None kept.
ConvertPercent(value) ==
    LET x == safe_numeric_convert(value)
    IN  IF x = None THEN None ELSE Num(x.v \div 100)

\* Metrics with the four percentage columns divided by 100 on extraction.
MetricsAsFractions(row) ==
    [percentRRUsed  |-> ConvertPercent(row[3]),
     percentAGGUsed |-> ConvertPercent(row[4]),
     used           |-> safe_numeric_convert(row[5]),
     available      |-> safe_numeric_convert(row[6]),
     totalExposure  |-> safe_numeric_convert(row[7]),
     percentTERR    |-> ConvertPercent(row[8]),
     percentTEAGG   |-> ConvertPercent(row[9])]

\* The metrics dict of a row.
Metrics(row) ==
    [percentRRUsed  |-> safe_numeric_convert(row[3]),
     percentAGGUsed |-> safe_numeric_convert(row[4]),
     used           |-> safe_numeric_convert(row[5]),
     available      |-> safe_numeric_convert(row[6]),
     totalExposure  |-> safe_numeric_convert(row[7]),
     percentTERR    |-> safe_numeric_convert(row[8]),
     percentTEAGG   |-> safe_numeric_convert(row[9])]

\* not any([percent_rr_used, convert(row[3]), convert(row[4])])
NoRealData(row) ==
    ~ \E c \in {3, 4, 5} : Truthy(safe_numeric_convert(row[c]))

EntryDict(row) ==
    [term |-> ColText(row[1]), lgd |-> ColText(row[2]), metrics |-> Metrics(row)]

\* AttachEntry in which the entry pushed at the top level becomes the parent.
AttachEntryAnonymousBecomesParent(st, entry_dict, i) ==
    IF st.sub # 0
    THEN [st EXCEPT !.entries[st.sub].entries = Append(@, entry_dict)]
    ELSE IF st.parent # 0
    THEN [st EXCEPT !.entries[st.parent] = entry_dict @@ @]
    ELSE [st EXCEPT !.entries = Append(@, [name |-> <<>>] @@ entry_dict),
                    !.parent  = Len(st.entries) + 1,
                    !.origin  = Append(@, i)]

\* (D) the row goes to the open subCategory, else onto the parent dict itself
\* (dict.update), else to the top level under an empty name.
AttachEntry(st, entry_dict, i) ==
    IF st.sub # 0
    THEN [st EXCEPT !.entries[st.sub].entries = Append(@, entry_dict)]
    ELSE IF st.parent # 0
    THEN [st EXCEPT !.entries[st.parent] = entry_dict @@ @]
    ELSE [st EXCEPT !.entries = Append(@, [name |-> <<>>] @@ entry_dict),
                    !.origin  = Append(@, i)]

\* RowBody that drops a later row matching the category marker as a repeated header.
RowBodyDropsCategoryRow(st, row, i) ==
    LET col_name_term == ColText(row[1])
        col_lgd       == ColText(row[2])
    IN  IF MatchesCategoryMarker(row)
        THEN st
        ELSE IF col_name_term # <<>> /\ col_lgd = <<>>
        THEN StartParent(st, col_name_term, i)
        ELSE IF Contains(Upper(col_name_term), RevolverUpper)
        THEN StartSubCategory(st, col_name_term, i)
        ELSE IF NoRealData(row)
        THEN st
        ELSE AttachEntry(st, EntryDict(row), i)

\* RowBody that drops a row whose first column contains "Sub Total".
RowBodyDropsSubtotalRow(st, row, i) ==
    LET col_name_term == ColText(row[1])
        col_lgd       == ColText(row[2])
    IN  IF MatchesSubtotal(row)
        THEN st
        ELSE IF col_name_term # <<>> /\ col_lgd = <<>>
        THEN StartParent(st, col_name_term, i)
        ELSE IF Contains(Upper(col_name_term), RevolverUpper)
        THEN StartSubCategory(st, col_name_term, i)
        ELSE IF NoRealData(row)
        THEN st
        ELSE AttachEntry(st, EntryDict(row), i)

\* The loop body for a row that is not fully empty.
RowBody(st, row, i) ==
    LET col_name_term == ColText(row[1])
        col_lgd       == ColText(row[2])
    IN  IF col_name_term # <<>> /\ col_lgd = <<>>
        THEN StartParent(st, col_name_term, i)
        ELSE IF Contains(Upper(col_name_term), RevolverUpper)
        THEN StartSubCategory(st, col_name_term, i)
        ELSE IF NoRealData(row)
        THEN st
        ELSE AttachEntry(st, EntryDict(row), i)

\* LoopBody in which a fully empty row also closes the open subcategory block.
LoopBodyBlankClosesBlock(st, row, i) ==
    IF RowAllNa(row) THEN [st EXCEPT !.sub = 0] ELSE RowBody(st, row, i)

\* One iteration of the for loop.
LoopBody(st, row, i) == IF RowAllNa(row) THEN st ELSE RowBody(st, row, i)

(***************************************************************************)
(* create_excel_from_json                                                  *)
(***************************************************************************)
\* Number of calls of create_excel_from_json made on one returned tree.
MaxRenders == 2

Headers ==
    << <<"N", "a", "m", "e", "/", "T", "e", "r", "m">>,
       <<"L", "G", "D">>,
       <<"%", " ", "R", "R", " ", "U", "s", "e", "d">>,
       <<"%", " ", "A", "G", "G", " ", "U", "s", "e", "d">>,
       <<"U", "s", "e", "d">>,
       <<"A", "v", "a", "i", "l", "a", "b", "l", "e">>,
       <<"T", "o", "t", "a", "l", " ", "E", "x", "p", "o", "s", "u", "r", "e">>,
       <<"%", " ", "T", "E", " ", "o", "f", " ", "R", "R">>,
       <<"%", " ", "T", "E", " ", "o", "f", " ", "A", "G", "G">> >>

\* A cell openpyxl creates on first access.
BlankCell == [value |-> None, bold |-> FALSE, fill |-> "none",
              number_format |-> "General", border |-> "none", alignment |-> "general"]

BlankSheetRow == [c \in 1..9 |-> BlankCell]

\* workbook.create_sheet('Sheet1')
NewSheet == <<>>

\* StartRow when the row counter outlives the call that set it.
StartRowKept == IF outputs = <<>> THEN 3 ELSE current_row

\* current_row = 3
StartRow == 3

\* The sheet grown to hold row r.
Extend(ws, r) ==
    IF Len(ws) >= r THEN ws ELSE ws \o [k \in 1..(r - Len(ws)) |-> BlankSheetRow]

\* worksheet.cell(row=r, column=c, value=v)
SetValue(ws, r, c, v) == [Extend(ws, r) EXCEPT ![r][c].value = v]

\* worksheet.cell(row=r, column=c, value=v) followed by cell.number_format = fmt
SetNumber(ws, r, c, v, fmt) ==
    [Extend(ws, r) EXCEPT ![r][c].value = v, ![r][c].number_format = fmt]

\* value / 100
Div100(x) == Num(x.v \div 100)

\* dict.get(key, default)
Get(d, key, default) == IF key \in DOMAIN d THEN d[key] ELSE default

\* One metric cell: written only when the metric is not None.
WriteMetric(ws, r, c, metrics, key) ==
    LET m == Get(metrics, key, None)
    IN  IF m = None THEN ws
        ELSE IF c \in {3, 4, 8, 9} THEN SetNumber(ws, r, c, Div100(m), "0.00%")
        ELSE SetNumber(ws, r, c, m, "#,##0")

Indent(n) == [k \in 1..n |-> " "]

write_data_row(ws, row_num, term, lgd, metrics, indent) ==
    LET w1 == SetValue(ws, row_num, 1, Str(Indent(indent) \o term))
        w2 == SetValue(w1, row_num, 2, Str(lgd))
        w3 == WriteMetric(w2, row_num, 3, metrics, "percentRRUsed")
        w4 == WriteMetric(w3, row_num, 4, metrics, "percentAGGUsed")
        w5 == WriteMetric(w4, row_num, 5, metrics, "used")
        w6 == WriteMetric(w5, row_num, 6, metrics, "available")
        w7 == WriteMetric(w6, row_num, 7, metrics, "totalExposure")
        w8 == WriteMetric(w7, row_num, 8, metrics, "percentTERR")
    IN  WriteMetric(w8, row_num, 9, metrics, "percentTEAGG")

\* A name row: the text in column 1, filled yellow.
WriteNameRow(ws, r, text) ==
    [SetValue(ws, r, 1, Str(text)) EXCEPT ![r][1].fill = "FFEB9C"]

\* for sub_entry in entry["entries"]: write_data_row(..., indent=2); current_row += 1
RECURSIVE WriteSubEntries(_, _)
WriteSubEntries(acc, subs) ==
    IF subs = <<>> THEN acc
    ELSE LET e == Head(subs)
         IN  WriteSubEntries(
                 [ws  |-> write_data_row(acc.ws, acc.row, Get(e, "term", <<>>),
                                         Get(e, "lgd", <<>>), Get(e, "metrics", <<>>), 2),
                  row |-> acc.row + 1],
                 Tail(subs))

\* The body of "for entry in json_data['entries']" for one entry.
WriteEntry(acc, entry) ==
    LET name    == Get(entry, "name", <<>>)
        sub_cat == Get(entry, "subCategory", <<>>)
        term    == Get(entry, "term", <<>>)
    IN  IF sub_cat # <<>>
        THEN WriteSubEntries(
                 [ws  |-> WriteNameRow(acc.ws, acc.row, name \o <<" ", "-", " ">> \o sub_cat),
                  row |-> acc.row + 1],
                 entry.entries)
        ELSE IF "entries" \in DOMAIN entry
        THEN WriteSubEntries(
                 IF name # <<>>
                 THEN [ws |-> WriteNameRow(acc.ws, acc.row, name), row |-> acc.row + 1]
                 ELSE acc,
                 entry.entries)
        ELSE LET a1 == IF name # <<>> /\ term = <<>>
                       THEN [ws |-> WriteNameRow(acc.ws, acc.row, name), row |-> acc.row + 1]
                       ELSE acc
             IN  IF term # <<>>
                 THEN [ws  |-> write_data_row(a1.ws, a1.row, term, Get(entry, "lgd", <<>>),
                                              Get(entry, "metrics", <<>>), 2),
                       row |-> a1.row + 1]
                 ELSE a1

RECURSIVE WriteEntries(_, _)
WriteEntries(acc, entries) ==
    IF entries = <<>> THEN acc
    ELSE WriteEntries(WriteEntry(acc, Head(entries)), Tail(entries))

\* Rows 1 and 2: the category in bold, then the nine headers in bold.
WriteHeading(ws, category) ==
    LET w1 == [SetValue(ws, 1, 1, Str(category)) EXCEPT ![1][1].bold = TRUE]
        w2 == Extend(w1, 2)
    IN  [w2 EXCEPT ![2] = [c \in 1..9 |->
                              [w2[2][c] EXCEPT !.value = Str(Headers[c]), !.bold = TRUE]]]

\* Border and alignment on rows 2 .. last of columns 1 .. 9.
BorderAndAlign(ws, last) ==
    LET w == Extend(ws, last)
    IN  [r \in 1..Len(w) |->
            IF r >= 2 /\ r <= last
            THEN [c \in 1..9 |->
                    [w[r][c] EXCEPT !.border = "thin",
                                    !.alignment = IF c >= 3 THEN "right" ELSE "left"]]
            ELSE w[r]]

\* One whole call: the sheet written and the value of current_row at the end.
create_excel_from_json(data, sheet, first_row) ==
    LET body == WriteEntries([ws |-> WriteHeading(sheet, data.category), row |-> first_row],
                             data.entries)
    IN  [ws |-> BorderAndAlign(body.ws, body.row - 1), row |-> body.row]

\* The state after lines 52-63: the category is the first cell of row 0.
Init ==
    /\ pc = "loop"
    /\ outputs = <<>>
    /\ df_raw = <<CategoryRow>>
    /\ json_data = [category |-> Strip(CategoryRow[1].s), entries |-> <<>>]
    /\ current_parent_entry = 0
    /\ current_subcategory_entry = 0
    /\ origin = <<>>
    /\ worksheet = NewSheet
    /\ current_row = StartRow

\* The loop reaches the next row of the grid; i is the row's 0-based index.
ProcessRow ==
    /\ pc = "loop"
    /\ Len(df_raw) <= MaxRows
    /\ \E row \in Rows :
         LET st == LoopBody(BuilderState, row, Len(df_raw))
         IN  /\ df_raw' = Append(df_raw, row)
             /\ json_data' = [json_data EXCEPT !.entries = st.entries]
             /\ current_parent_entry' = st.parent
             /\ current_subcategory_entry' = st.sub
             /\ origin' = st.origin
    /\ pc' = pc
    /\ UNCHANGED render_vars

\* The grid has no more rows: return json_data.
Return ==
    /\ pc = "loop"
    /\ pc' = "returned"
    /\ UNCHANGED builder_vars
    /\ UNCHANGED render_vars

\* create_excel_from_json(json_data) is called on the returned tree.
Render ==
    /\ pc = "returned"
    /\ Len(outputs) < MaxRenders
    /\ LET res == create_excel_from_json(json_data, NewSheet, StartRow)
       IN  /\ worksheet' = res.ws
           /\ current_row' = res.row
           /\ outputs' = Append(outputs, res.ws)
    /\ pc' = pc
    /\ UNCHANGED builder_vars

Next == ProcessRow \/ Return \/ Render

Spec == Init /\ [][Next]_vars

(***************************************************************************)
(* Vocabulary of the properties                                            *)
(***************************************************************************)
HasLgd(row) == ColText(row[2]) # <<>>

\* First column non-empty, LGD empty, no metrics.
IsGroupStartRow(row) ==
    /\ ColText(row[1]) # <<>>
    /\ ~HasLgd(row)
    /\ \A c \in 3..9 : IsNa(row[c])

\* The step just taken read a row of the grid; NewRow is that row.
RowStep == Len(df_raw') = Len(df_raw) + 1

NewRow == df_raw'[Len(df_raw')]

LastRow == df_raw[Len(df_raw)]

IsSubCategoryEntry(e) == "subCategory" \in DOMAIN e

\* Every record of the tree that carries term, lgd and metrics.
DetailRecords(entries) ==
    {entries[k] : k \in {n \in 1..Len(entries) : "metrics" \in DOMAIN entries[n]}}
    \cup UNION {{entries[k].entries[n] : n \in 1..Len(entries[k].entries)} :
                k \in {n \in 1..Len(entries) : IsSubCategoryEntry(entries[n])}}

\* How many detail records the tree holds.
RECURSIVE DetailCount(_)
DetailCount(entries) ==
    IF entries = <<>> THEN 0
    ELSE DetailCount(Tail(entries))
         + (IF IsSubCategoryEntry(Head(entries)) THEN Len(Head(entries).entries)
            ELSE IF "metrics" \in DOMAIN Head(entries) THEN 1 ELSE 0)

PercentFields ==
    [c \in {3, 4, 8, 9} |->
        CASE c = 3 -> "percentRRUsed" [] c = 4 -> "percentAGGUsed"
          [] c = 8 -> "percentTERR"   [] c = 9 -> "percentTEAGG"]

\* The positions in df_raw of the rows matching the category marker.
CategoryRows == {j \in 1..Len(df_raw) : MatchesCategoryMarker(df_raw[j])}

(***************************************************************************)
(* C1                                                                      *)
(***************************************************************************)
\* C1 as stated: a grid in which two rows match the category marker never ends
\* in a returned tree (the call ends in DuplicateCategoryError instead).
C1_DuplicateCategoryIsError ==
    ~(pc = "returned" /\ Cardinality(CategoryRows) >= 2)

\* C1 amended: for a grid in which two rows match the category marker the call
\* raises nothing and returns a tree; its category is the text of row 0's
\* first cell, and every later matching row with an empty LGD has started a
\* parent entry named by that row.
C1_SecondCategoryRowStartsParent ==
    (pc = "returned" /\ Cardinality(CategoryRows) >= 2) =>
        /\ json_data.category = ColText(df_raw[1][1])
        /\ \A j \in CategoryRows \ {1} :
             ~HasLgd(df_raw[j]) =>
                \E k \in 1..Len(json_data.entries) :
                    /\ origin[k] = j - 1
                    /\ json_data.entries[k].name = ColText(df_raw[j][1])

C1_Witness ==
    /\ pc = "returned"
    /\ Cardinality(CategoryRows) >= 2
    /\ Len(json_data.entries) >= 1

(***************************************************************************)
(* C2                                                                      *)
(***************************************************************************)
\* A converted cell value divided by d, None kept.
Scaled(x, d) == IF x = None THEN None ELSE Num(x.v \div d)

\* Some row of the grid has the record's term and lgd, and each percentage
\* field of the record is the converted cell of that row divided by d.
StoredFromRow(e, d) ==
    \E j \in 2..Len(df_raw) :
        /\ e.term = ColText(df_raw[j][1])
        /\ e.lgd = ColText(df_raw[j][2])
        /\ \A c \in DOMAIN PercentFields :
             e.metrics[PercentFields[c]] = Scaled(safe_numeric_convert(df_raw[j][c]), d)

\* C2 as stated: in every stored detail record each of the four percentage
\* fields is the displayed cell value divided by 100.
C2_PercentStoredAsFraction ==
    \A e \in DetailRecords(json_data.entries) : StoredFromRow(e, 100)

\* C2 amended: in every stored detail record each of the four percentage
\* fields is the displayed cell value itself, converted to a float (displayed
\* 62.5 is stored as 62.5); process_excel_to_json does not divide by 100.
C2_PercentStoredAsDisplayed ==
    \A e \in DetailRecords(json_data.entries) : StoredFromRow(e, 1)

\* A record stored from the row showing "62.5%", 12.5, ..., 25.0, 2.5.
C2_Witness ==
    \E e \in DetailRecords(json_data.entries) :
        /\ e.term = TermB
        /\ e.metrics.percentRRUsed = Num(625000)
        /\ e.metrics.percentTEAGG = Num(25000)

(***************************************************************************)
(* C3                                                                      *)
(***************************************************************************)
LgdRows == {j \in 2..Len(df_raw) : HasLgd(df_raw[j])}

\* C3 as stated: every row after the category row whose LGD is non-empty has
\* added exactly one detail record, whose term and lgd are the row's columns 1
\* and 2, whatever its first column and its metric columns hold.
C3_LgdRowYieldsOneDetail ==
    /\ DetailCount(json_data.entries) = Cardinality(LgdRows)
    /\ \A j \in LgdRows :
         \E e \in DetailRecords(json_data.entries) :
             e.term = ColText(df_raw[j][1]) /\ e.lgd = ColText(df_raw[j][2])

C5_BlankRowChangesNothing ==
    [][(RowStep /\ RowAllNa(NewRow)) =>
          /\ json_data' = json_data
          /\ current_parent_entry' = current_parent_entry
          /\ current_subcategory_entry' = current_subcategory_entry]_vars

\* A blank row read while a parent and a subcategory block are open.
C5_Witness ==
    /\ Len(df_raw) >= 4
    /\ RowAllNa(LastRow)
    /\ current_parent_entry # 0
    /\ current_subcategory_entry # 0

(***************************************************************************)
(* C6                                                                      *)
(***************************************************************************)
\* The positions j of df_raw where rows j and j + 1 are both GroupStart rows.
GroupStartPairs ==
    {j \in 2..(Len(df_raw) - 1) :
        IsGroupStartRow(df_raw[j]) /\ IsGroupStartRow(df_raw[j + 1])}

\* C6: two consecutive GroupStart rows give two adjacent entries of the tree,
\* in input order, named by the two rows; the first holds nothing but its name
\* (no detail, no subcategory block between it and the second), and so does
\* the second as long as no later row has been read.
C6_ConsecutiveGroupStartsBothKept ==
    \A j \in GroupStartPairs :
        \E k \in 1..(Len(json_data.entries) - 1) :
            /\ origin[k] = j - 1
            /\ origin[k + 1] = j
            /\ json_data.entries[k] = [name |-> ColText(df_raw[j][1])]
            /\ json_data.entries[k + 1].name = ColText(df_raw[j + 1][1])
            /\ ~IsSubCategoryEntry(json_data.entries[k + 1])
            /\ (j + 1 = Len(df_raw) =>
                    json_data.entries[k + 1] = [name |-> ColText(df_raw[j + 1][1])])

\* "Beta Corp" directly followed by "Acme LLC", and the tree returned.
C6_Witness ==
    /\ pc = "returned"
    /\ Len(df_raw) = 3
    /\ 2 \in GroupStartPairs
    /\ json_data.entries = <<[name |-> BetaName], [name |-> AcmeText]>>

IsAttachedDetailRow(row) ==
    /\ HasLgd(row)
    /\ ~Contains(Upper(ColText(row[1])), RevolverUpper)
    /\ ~NoRealData(row)

\* The detail records a top-level entry holds, in order.
DetailsOf(e) ==
    IF "entries" \in DOMAIN e THEN e.entries
    ELSE IF "metrics" \in DOMAIN e
    THEN <<[term |-> e.term, lgd |-> e.lgd, metrics |-> e.metrics]>>
    ELSE <<>>

\* C8 as stated: after a GroupStart row followed by k Detail rows and nothing
\* else, the entry of that group still has the GroupStart row's name and holds
\* k detail records, those of the k rows in input order.
C8_DetailsAppendedToGroup ==
    \A j \in 2..Len(df_raw) :
        (/\ IsGroupStartRow(df_raw[j])
         /\ \A m \in (j + 1)..Len(df_raw) : IsAttachedDetailRow(df_raw[m]))
        => \E k \in 1..Len(json_data.entries) :
              /\ origin[k] = j - 1
              /\ json_data.entries[k].name = ColText(df_raw[j][1])
              /\ Len(DetailsOf(json_data.entries[k])) = Len(df_raw) - j
              /\ \A n \in 1..(Len(df_raw) - j) :
                   DetailsOf(json_data.entries[k])[n] = EntryDict(df_raw[j + n])

(***************************************************************************)
(* C9                                                                      *)
(***************************************************************************)
\* The first column contains the subgroup vocabulary, in any case, and the LGD
\* and metric columns are empty.
IsSubgroupMarkerRow(row) ==
    /\ Contains(Upper(ColText(row[1])), RevolverUpper)
    /\ ~HasLgd(row)
    /\ \A c \in 3..9 : IsNa(row[c])

\* C9 as stated: a SubgroupMarker row appends a subcategory block labelled by
\* the row, which becomes the open block, and it neither starts a new parent
\* nor moves the current-parent cursor.
C9_RevolverRowOpensSubgroup ==
    [][(RowStep /\ IsSubgroupMarkerRow(NewRow)) =>
          /\ current_parent_entry' = current_parent_entry
          /\ Len(json_data'.entries) = Len(json_data.entries) + 1
          /\ IsSubCategoryEntry(json_data'.entries[Len(json_data'.entries)])
          /\ json_data'.entries[Len(json_data'.entries)].subCategory = ColText(NewRow[1])
          /\ current_subcategory_entry' = Len(json_data'.entries)]_vars

(***************************************************************************)
(* C10                                                                     *)
(***************************************************************************)
\* The loop index of the most recent GroupStart row of the grid, 0 if none.
LastGroupStart ==
    LET S == {j \in 2..Len(df_raw) : IsGroupStartRow(df_raw[j])}
    IN  IF S = {} THEN 0 ELSE (CHOOSE j \in S : \A m \in S : m <= j) - 1

\* C10: whenever a row is attached to a subcategory block, the row that opened
\* the block came after the most recent GroupStart row.
C10_DetailOnlyInSubgroupOfCurrentGroup ==
    [][\A k \in 1..Len(json_data.entries) :
          (IsSubCategoryEntry(json_data.entries[k])
           /\ json_data'.entries[k] # json_data.entries[k])
          => origin[k] > LastGroupStart]_vars

\* A GroupStart row, then a row opening a block, then a row attached to it.
C10_Witness ==
    /\ LastGroupStart > 0
    /\ \E k \in 1..Len(json_data.entries) :
         /\ IsSubCategoryEntry(json_data.entries[k])
         /\ json_data.entries[k].entries # <<>>
         /\ origin[k] > LastGroupStart

(***************************************************************************)
(* C11                                                                     *)
(***************************************************************************)
\* How many rows directly after the category row are attached detail rows.
LeadingDetails ==
    LET S == {n \in 0..(Len(df_raw) - 1) :
                 \A m \in 2..(n + 1) : IsAttachedDetailRow(df_raw[m])}
    IN  CHOOSE n \in S : \A m \in S : m <= n

\* C11 as stated: when the grid so far is the category row followed by Detail
\* rows only, the tree holds one anonymous group (empty name), that group is
\* the current parent, and it holds the records of all those rows in input
\* order.
C11_LeadingDetailsShareOneAnonymousGroup ==
    (LeadingDetails >= 1 /\ LeadingDetails = Len(df_raw) - 1) =>
        /\ Len(json_data.entries) = 1
        /\ json_data.entries[1].name = <<>>
        /\ current_parent_entry = 1
        /\ Len(DetailsOf(json_data.entries[1])) = LeadingDetails
        /\ \A n \in 1..LeadingDetails :
             DetailsOf(json_data.entries[1])[n] = EntryDict(df_raw[n + 1])

\* C11 amended: a Detail row that arrives when no parent is current is pushed
\* at the top level as an entry of its own with an empty name, and no parent
\* becomes current: the k Detail rows that directly follow the category row
\* are the first k entries of the tree, one per row, in input order.
C11_LeadingDetailsAreSeparateAnonymousEntries ==
    /\ Len(json_data.entries) >= LeadingDetails
    /\ \A n \in 1..LeadingDetails :
         /\ json_data.entries[n] = [name |-> <<>>] @@ EntryDict(df_raw[n + 1])
         /\ origin[n] = n
    /\ (LeadingDetails = Len(df_raw) - 1 =>
            /\ Len(json_data.entries) = LeadingDetails
            /\ current_parent_entry = 0)

\* Two Detail rows directly after the category row, and the tree returned.
C11_Witness ==
    /\ pc = "returned"
    /\ Len(df_raw) = 3
    /\ LeadingDetails = 2
    /\ Len(json_data.entries) = 2
    /\ json_data.entries[1].term = TermA
    /\ json_data.entries[2].term = TermB

(***************************************************************************)
(* C12                                                                     *)
(***************************************************************************)
\* The positions of the tree's groups that have a name: top-level entries that
\* are no subcategory block and whose name is not empty.
NamedGroups ==
    {k \in 1..Len(json_data.entries) :
        /\ ~IsSubCategoryEntry(json_data.entries[k])
        /\ json_data.entries[k].name # <<>>}

\* Row r of the sheet is a group row for name: the name in column 1, filled,
\* and nothing in the metric columns.
IsGroupRow(sheet, r, name) ==
    /\ sheet[r][1].value = Str(name)
    /\ sheet[r][1].fill = "FFEB9C"
    /\ \A c \in 3..9 : sheet[r][c].value = None

\* C12 as stated: in every sheet create_excel_from_json returns, each named
\* group has its one group row (as many group rows carry a name as groups
\* have it), and a group that holds a detail has its group row directly above
\* its detail row.
C12_EachNamedGroupHasItsGroupRow ==
    \A o \in 1..Len(outputs) : \A k \in NamedGroups :
        LET sheet == outputs[o]
            e     == json_data.entries[k]
        IN  /\ Cardinality({r \in 3..Len(sheet) : IsGroupRow(sheet, r, e.name)})
                 = Cardinality({m \in NamedGroups : json_data.entries[m].name = e.name})
            /\ DetailsOf(e) # <<>> =>
                 \E r \in 3..(Len(sheet) - 1) :
                     /\ IsGroupRow(sheet, r, e.name)
                     /\ sheet[r + 1][1].value = Str(Indent(2) \o DetailsOf(e)[1].term)

====
